---------------------------- MODULE Spec2Model ----------------------------
(***************************************************************************)
(* Model of jellyfinmanager's episode reconciliation:                      *)
(*   - tvdb.FindMissingEpisodes (src/api/tvdb/tvdb.go), the forward scan   *)
(*     that reports aired episodes absent from Jellyfin and folds          *)
(*     multi-part episodes into the preceding local file by runtime;       *)
(*   - the restore of a watched-status backup (src/build/entrypoint.sh,    *)
(*     performRestore / restoreMovies / restoreTVShows) against the        *)
(*     lookup maps built by the Jellyfin client (src/unnamed/part_000).    *)
(***************************************************************************)
EXTENDS Integers, Sequences, FiniteSets, TLC

VARIABLES
    \* ---- FindMissingEpisodes: inputs
    tvdbEpisodes,            \* []Episode, ordered as TVDB returned them
    jellyfinEpisodes,        \* map "season:episode" -> runtime of the local file
    checkSpecials,           \* the -include-specials flag
    now,                     \* the wall clock read by time.Now(), in ticks
    \* ---- FindMissingEpisodes: loop state
    idx,                     \* position of the range loop (Len+1: returned)
    chainActive,
    chainSeason,
    chainJfRuntime,
    chainTvdbRuntimeAccum,
    missing,                 \* the result slice built so far
    \* ---- observation of a scan (history, not program state)
    lastStep,                \* what the last loop iteration saw and did
    run,                     \* 1: first call, 2: second call on the same inputs
    firstMissing,            \* result of the first call
    firstNow,                \* what the clock showed at its first read
    \* ---- restore: inputs
    backupItems,             \* backup.WatchedItems, as read from the file
    liveItems,               \* the items the Jellyfin server holds
    \* ---- restore: program state
    pc,                      \* where performRestore stands
    pos,                     \* index of the record the current loop is at
    seriesLeft,              \* series of tvShowMap not yet ranged over
    curSeries,               \* seriesName of the running iteration
    curEpisodes,             \* episodes last fetched for a series
    seasonsLeft,             \* seasons of the series not yet ranged over
    curSeason,               \* seasonName of the running iteration
    successful,
    failed,
    found,                   \* the loop body's "found"
    itemInfo,                \* the loop body's movieInfo / episodeInfo
    \* ---- restore: observation
    marks,                   \* the MarkAsWatched calls made: item id, result
    lastRecord,              \* the record the last iteration processed, and
                             \* the counters and calls before it
    lastShow,                \* the series iteration the last step began, if
                             \* it began one: the search, the calls made
    \* ---- performFindMissing
    fmSeries,                \* the series GetAllSeries returns
    includeSpecials,         \* the -include-specials flag
    fmPc,                    \* where performFindMissing stands
    fmPos,                   \* index of the series the loop is at
    totalMissing,
    fmLog                    \* what was done for each series ranged over

scanVars == <<tvdbEpisodes, jellyfinEpisodes, checkSpecials, now, idx,
              chainActive, chainSeason, chainJfRuntime, chainTvdbRuntimeAccum,
              missing, lastStep, run, firstMissing, firstNow>>

restoreVars == <<backupItems, liveItems, pc, pos, seriesLeft, curSeries,
                 curEpisodes, seasonsLeft, curSeason, successful, failed,
                 found, itemInfo, marks, lastRecord, lastShow>>

findVars == <<fmSeries, includeSpecials, fmPc, fmPos, totalMissing, fmLog>>

vars == <<scanVars, restoreVars, findVars>>

-----------------------------------------------------------------------------
(* Bounds of the model *)

\* longest TVDB episode list explored
MaxEpisodes == 3
\* longest list on which the function is called twice
MaxRerunEpisodes == 2
\* most records of a backup file
MaxRecords == 2
MaxSeries == 2
\* clock ticks that may elapse while the program runs
MaxTicks == 1
\* clock resolution of the model: ticks per calendar day
TicksPerDay == 2

\* season numbers of the explored lists (0 is the specials season)
Seasons == {0, 1}
\* TVDB's expected runtimes (minutes)
Runtimes == {20, 100}
\* runtimes of the local files (minutes)
LocalRuntimes == {100, 102}

-----------------------------------------------------------------------------
(* Dates: the "aired" text is modelled by its fields <<year, month, day>>;  *)
(* <<>> is a text without them (the empty string).                          *)

IsLeap(y) == (y % 4 = 0 /\ y % 100 # 0) \/ y % 400 = 0

DaysInMonth(y, m) ==
    IF m = 2 THEN (IF IsLeap(y) THEN 29 ELSE 28)
    ELSE IF m \in {4, 6, 9, 11} THEN 30 ELSE 31

RECURSIVE DaysBeforeMonth(_, _)
DaysBeforeMonth(y, m) ==
    IF m <= 1 THEN 0 ELSE DaysBeforeMonth(y, m - 1) + DaysInMonth(y, m - 1)

\* days from 0001-01-01 to the given valid date
DayNumber(y, m, d) ==
    LET p == y - 1
    IN  365 * p + (p \div 4) - (p \div 100) + (p \div 400)
        + DaysBeforeMonth(y, m) + (d - 1)

\* time.Parse("2006-01-02", s): errDate == nil
DateParses(s) ==
    /\ Len(s) = 3
    /\ s[1] \in 0..9999
    /\ s[2] \in 1..12
    /\ s[3] \in 1..DaysInMonth(s[1], s[2])

\* the parsed time: midnight UTC of that day, in ticks
AirInstant(s) == DayNumber(s[1], s[2], s[3]) * TicksPerDay

\* the day the clock shows when the program starts
TodayDate == <<2024, 2, 29>>
NowStart == DayNumber(TodayDate[1], TodayDate[2], TodayDate[3]) * TicksPerDay
\* calendar day of an instant
DayOf(t) == t \div TicksPerDay

Yesterday == <<2024, 2, 28>>
Tomorrow == <<2024, 3, 1>>
\* an empty text, and a text naming a day that does not exist
NoDate == <<>>
BadDate == <<2024, 2, 30>>
\* "aired" texts explored
AirDates == {NoDate, BadDate, Yesterday, TodayDate, Tomorrow}

-----------------------------------------------------------------------------
(* FindMissingEpisodes *)

\* fmt.Sprintf("%d:%d", season, number)
EpisodeKey(season, number) == ToString(season) \o ":" \o ToString(number)

\* faulty variant: the key is built as number:season
EpisodeStoredSwappedKey(m, ep) ==
    EpisodeKey(ep.Number, ep.SeasonNumber) \in DOMAIN m
\* jfRuntime, episodeStored := jellyfinEpisodes[key]
EpisodeStored(m, ep) == EpisodeKey(ep.SeasonNumber, ep.Number) \in DOMAIN m
JfRuntime(m, ep) == m[EpisodeKey(ep.SeasonNumber, ep.Number)]

\* faulty variants: the flag is ignored; every season is checked
PassesSpecialsNever(ep, cs) == ep.SeasonNumber # 0
PassesSpecialsAlways(ep, cs) == TRUE
\* (ep.SeasonNumber != 0 || checkSpecials)
PassesSpecials(ep, cs) == ep.SeasonNumber # 0 \/ cs

\* faulty variant: errDate is not looked at (the zero time is before any clock reading)
HasAiredIgnoringErr(ep, t) ==
    IF DateParses(ep.Aired) THEN AirInstant(ep.Aired) < t ELSE TRUE
\* faulty variant: !airDate.After(time.Now())
HasAiredOrAirsNow(ep, t) == DateParses(ep.Aired) /\ AirInstant(ep.Aired) <= t
\* (errDate == nil && airDate.Before(time.Now()))
HasAired(ep, t) == DateParses(ep.Aired) /\ AirInstant(ep.Aired) < t

\* the candidate test of an episode not found in Jellyfin
IsCandidate(ep, cs, t) == PassesSpecials(ep, cs) /\ HasAired(ep, t)

\* faulty variant: the season is not compared
ChainAppliesAnySeason(active, season, ep) == active
\* chainActive && chainSeason == ep.SeasonNumber
ChainApplies(active, season, ep) == active /\ season = ep.SeasonNumber

\* faulty variant: > in place of >=
LongEnoughStrict(jf, accum) == 100 * jf > 85 * accum
\* faulty variant: 0.5 in place of 0.85
LongEnoughHalf(jf, accum) == 100 * jf >= 50 * accum
\* float64(chainJfRuntime) >= float64(chainTvdbRuntimeAccum)*0.85
\* (on integers the float64 comparison agrees with 100*jf >= 85*accum)
LongEnough(jf, accum) == 100 * jf >= 85 * accum

\* models.MissingEpisode built from the TVDB episode
MissingEpisode(ep) ==
    [SeasonNumber  |-> ep.SeasonNumber,
     EpisodeNumber |-> ep.Number,
     EpisodeName   |-> ep.Name,
     AirDate       |-> ep.Aired,
     Overview      |-> ep.Overview]

\* the zero values of the locals declared at function entry
ChainZero ==
    [chainActive |-> FALSE, chainSeason |-> 0, chainJfRuntime |-> 0,
     chainTvdbRuntimeAccum |-> 0, missing |-> <<>>]

\* faulty variant: a stored episode adds to the accumulator of the chain
\* before it instead of starting its own
ScanStepKeepingAccum(st, ep, m, cs, t) ==
    IF EpisodeStored(m, ep)
    THEN [st EXCEPT !.chainActive = TRUE,
                    !.chainSeason = ep.SeasonNumber,
                    !.chainJfRuntime = JfRuntime(m, ep),
                    !.chainTvdbRuntimeAccum = @ + ep.RuntimeMinutes]
    ELSE IF ~IsCandidate(ep, cs, t) THEN st
    ELSE IF ChainApplies(st.chainActive, st.chainSeason, ep)
         THEN LET accum == st.chainTvdbRuntimeAccum + ep.RuntimeMinutes
              IN  IF LongEnough(st.chainJfRuntime, accum)
                  THEN [st EXCEPT !.chainTvdbRuntimeAccum = accum]
                  ELSE [st EXCEPT !.chainTvdbRuntimeAccum = accum,
                                  !.chainActive = FALSE,
                                  !.missing = Append(@, MissingEpisode(ep))]
         ELSE [st EXCEPT !.chainActive = FALSE,
                         !.missing = Append(@, MissingEpisode(ep))]
\* One iteration of the range loop on episode ep, from state st
\* (a record of the four chain variables and the result slice).
ScanStep(st, ep, m, cs, t) ==
    IF EpisodeStored(m, ep)
    THEN [st EXCEPT !.chainActive = TRUE,
                    !.chainSeason = ep.SeasonNumber,
                    !.chainJfRuntime = JfRuntime(m, ep),
                    !.chainTvdbRuntimeAccum = ep.RuntimeMinutes]
    ELSE IF ~IsCandidate(ep, cs, t) THEN st
    ELSE IF ChainApplies(st.chainActive, st.chainSeason, ep)
         THEN LET accum == st.chainTvdbRuntimeAccum + ep.RuntimeMinutes
              IN  IF LongEnough(st.chainJfRuntime, accum)
                  THEN [st EXCEPT !.chainTvdbRuntimeAccum = accum]
                  ELSE [st EXCEPT !.chainTvdbRuntimeAccum = accum,
                                  !.chainActive = FALSE,
                                  !.missing = Append(@, MissingEpisode(ep))]
         ELSE [st EXCEPT !.chainActive = FALSE,
                         !.missing = Append(@, MissingEpisode(ep))]

\* the whole call with the clock standing at t
RECURSIVE ScanFrom(_, _, _, _, _)
ScanFrom(st, eps, m, cs, t) ==
    IF eps = <<>> THEN st
    ELSE ScanFrom(ScanStep(st, Head(eps), m, cs, t), Tail(eps), m, cs, t)

FindMissingEpisodes(eps, m, cs, t) == ScanFrom(ChainZero, eps, m, cs, t).missing

\* the whole call with a running clock: ts[i] is what time.Now() returns in
\* the iteration on eps[i]
RECURSIVE ScanFromAt(_, _, _, _, _)
ScanFromAt(st, eps, m, cs, ts) ==
    IF eps = <<>> THEN st
    ELSE ScanFromAt(ScanStep(st, Head(eps), m, cs, Head(ts)), Tail(eps), m, cs,
                    Tail(ts))
FindMissingEpisodesAt(eps, m, cs, ts) ==
    ScanFromAt(ChainZero, eps, m, cs, ts).missing

\* the loop state as a record
ChainState ==
    [chainActive |-> chainActive, chainSeason |-> chainSeason,
     chainJfRuntime |-> chainJfRuntime,
     chainTvdbRuntimeAccum |-> chainTvdbRuntimeAccum, missing |-> missing]

\* faulty variant: the chain variables outlive the call (package-level variables)
StaleLocals == [ChainState EXCEPT !.missing = <<>>]
\* the locals of a new call: "var missing", "var ( chainActive ... )"
FreshLocals == ChainZero

-----------------------------------------------------------------------------
(* Restore: the backup, the live catalog and the lookup maps *)

\* the item types GetWatchedItems tells apart
TypeMovie == "Movie"
TypeEpisode == "Episode"

\* a ProviderIds map without entries
NoIds == <<>>
ImdbOne == ("Imdb" :> "tt1")
ImdbTwo == ("Imdb" :> "tt2")
TmdbOne == ("Tmdb" :> "1")
BothIds == ("Imdb" :> "tt1") @@ ("Tmdb" :> "1")

\* provider + ":" + id
ProviderKey(provider, id) == provider \o ":" \o id
ProviderKeys(ids) == {ProviderKey(p, ids[p]) : p \in DOMAIN ids}

\* item.Name for a movie
MovieKey(name) == name
\* faulty variant: the season is left out of the key
SeasonNameKeyNameOnly(seasonName, name) == name
\* ep.SeasonName + ":" + ep.Name
SeasonNameKey(seasonName, name) == seasonName \o ":" \o name

\* the secondary key of a backup record
SecondaryKey(rec) ==
    IF rec.Type = TypeMovie THEN MovieKey(rec.Name)
    ELSE SeasonNameKey(rec.SeasonName, rec.Name)

\* MovieInfo / EpisodeInfo of a live item
InfoOf(item) == [ID |-> item.ID, Played |-> item.Played]
\* the zero value of "var movieInfo" / "var episodeInfo"
NoInfo == [ID |-> "", Played |-> FALSE]

\* faulty variant: the first item that writes key k keeps it
FirstWriter(keys, k) ==
    CHOOSE i \in 1..Len(keys) :
        /\ k \in keys[i]
        /\ \A j \in 1..(i - 1) : k \notin keys[j]
\* position of the last item that writes key k into a map; keys[i] is the
\* set of keys item i is stored under
LastWriter(keys, k) ==
    CHOOSE i \in 1..Len(keys) :
        /\ k \in keys[i]
        /\ \A j \in (i + 1)..Len(keys) : k \notin keys[j]

\* the map a loop "m[key] = info" over the items leaves: a later item
\* overwrites an earlier one with the same key
BuildMap(items, keys) ==
    [k \in UNION {keys[i] : i \in 1..Len(keys)} |->
        InfoOf(items[LastWriter(keys, k)])]

\* GetAllMovies: providerIdMap and nameMap
MovieProviderIdMap(items) ==
    BuildMap(items, [i \in 1..Len(items) |-> ProviderKeys(items[i].ProviderIds)])
MovieNameMap(items) ==
    BuildMap(items, [i \in 1..Len(items) |-> {MovieKey(items[i].Name)}])

\* restoreTVShows: providerIdMap and nameSeasonMap of the fetched episodes
EpisodeProviderIdMap(items) ==
    BuildMap(items, [i \in 1..Len(items) |-> ProviderKeys(items[i].ProviderIds)])
EpisodeNameSeasonMap(items) ==
    BuildMap(items,
        [i \in 1..Len(items) |-> {SeasonNameKey(items[i].SeasonName, items[i].Name)}])

\* faulty variant: the name is tried first, the provider IDs only after it
ResolutionsNameFirst(rec, providerIdMap, nameMap) ==
    IF SecondaryKey(rec) \in DOMAIN nameMap
    THEN {[found |-> TRUE, info |-> nameMap[SecondaryKey(rec)]]}
    ELSE LET hits == ProviderKeys(rec.ProviderIDs) \cap DOMAIN providerIdMap
         IN  IF hits # {}
             THEN {[found |-> TRUE, info |-> providerIdMap[k]] : k \in hits}
             ELSE {[found |-> FALSE, info |-> NoInfo]}
\* faulty variant: no fallback to the name
ResolutionsNoFallback(rec, providerIdMap, nameMap) ==
    LET hits == ProviderKeys(rec.ProviderIDs) \cap DOMAIN providerIdMap
    IN  IF hits # {}
        THEN {[found |-> TRUE, info |-> providerIdMap[k]] : k \in hits}
        ELSE {[found |-> FALSE, info |-> NoInfo]}
\* "Try provider IDs first", then "Fallback to name matching": the values
\* of (found, movieInfo) the lookup can end with.  The range over the
\* record's ProviderIDs map visits its entries in an order the Go runtime
\* picks, and stops at the first entry found in providerIdMap.
Resolutions(rec, providerIdMap, nameMap) ==
    LET hits == ProviderKeys(rec.ProviderIDs) \cap DOMAIN providerIdMap
    IN  IF hits # {}
        THEN {[found |-> TRUE, info |-> providerIdMap[k]] : k \in hits}
        ELSE IF SecondaryKey(rec) \in DOMAIN nameMap
             THEN {[found |-> TRUE, info |-> nameMap[SecondaryKey(rec)]]}
             ELSE {[found |-> FALSE, info |-> NoInfo]}

\* faulty variant: the "already watched" test is missing
NeedsMarkAlways(res) == res.found
\* a found item that is not yet played is marked
NeedsMark(res) == res.found /\ ~res.info.Played

\* faulty variant: the error MarkAsWatched returns is dropped
CountsAfterIgnoringMarkError(res, markOk, s, f) ==
    IF ~res.found THEN [successful |-> s, failed |-> f + 1]
    ELSE [successful |-> s + 1, failed |-> f]
\* faulty variant: a record that is not found is not counted
CountsAfterDroppingNotFound(res, markOk, s, f) ==
    IF ~res.found THEN [successful |-> s, failed |-> f]
    ELSE IF res.info.Played THEN [successful |-> s + 1, failed |-> f]
    ELSE IF markOk THEN [successful |-> s + 1, failed |-> f]
    ELSE [successful |-> s, failed |-> f + 1]
\* successful++ / failed++ of one loop body; markOk: MarkAsWatched
\* returned nil
CountsAfter(res, markOk, s, f) ==
    IF ~res.found THEN [successful |-> s, failed |-> f + 1]
    ELSE IF ~NeedsMark(res) THEN [successful |-> s + 1, failed |-> f]
    ELSE IF markOk THEN [successful |-> s + 1, failed |-> f]
    ELSE [successful |-> s, failed |-> f + 1]

\* performRestore: "Group items by type"
MoviesOf(items) == SelectSeq(items, LAMBDA it : it.Type = TypeMovie)
EpisodesOf(items) == SelectSeq(items, LAMBDA it : it.Type = TypeEpisode)
\* the keys of tvShowMap and of tvShowMap[seriesName]
SeriesOf(items) ==
    {items[i].SeriesName : i \in {j \in 1..Len(items) : items[j].Type = TypeEpisode}}
SeasonsOf(items, seriesName) ==
    {items[i].SeasonName :
        i \in {j \in 1..Len(items) :
                 items[j].Type = TypeEpisode /\ items[j].SeriesName = seriesName}}
\* tvShowMap[seriesName][seasonName]
SeasonEpisodes(items, seriesName, seasonName) ==
    SelectSeq(items, LAMBDA it :
        /\ it.Type = TypeEpisode
        /\ it.SeriesName = seriesName
        /\ it.SeasonName = seasonName)
\* faulty variant: only the season of the group's first episode is counted
SeriesEpisodeCountOneSeason(items, seriesName) ==
    LET group == SelectSeq(items, LAMBDA it :
                    it.Type = TypeEpisode /\ it.SeriesName = seriesName)
    IN  Len(SelectSeq(group, LAMBDA it : it.SeasonName = group[1].SeasonName))
\* number of episodes of a series group
SeriesEpisodeCount(items, seriesName) ==
    Len(SelectSeq(items, LAMBDA it :
            it.Type = TypeEpisode /\ it.SeriesName = seriesName))

\* faulty variant: the first result is taken without looking at its name
FindSeriesIDFirstResult(results, seriesName) ==
    IF Len(results) > 0 THEN results[1].ID ELSE ""
\* FindSeriesID on the items a search returned: an exact name match, else
\* the first result, else an error ("" stands for the error)
FindSeriesID(results, seriesName) ==
    IF \E i \in 1..Len(results) : results[i].Name = seriesName
    THEN results[CHOOSE i \in 1..Len(results) :
                    /\ results[i].Name = seriesName
                    /\ \A j \in 1..(i - 1) : results[j].Name # seriesName].ID
    ELSE IF Len(results) > 0 THEN results[1].ID
    ELSE ""

-----------------------------------------------------------------------------
(* Restore: the servers and backups explored *)

\* the live library: items in the order the server lists them
LiveFacts ==
    [Name : {"Alpha", "Beta"}, ProviderIds : {ImdbOne, TmdbOne}, Played : BOOLEAN]
LiveSizes == {0, 1, 2}
LiveLists == UNION {[1..n -> LiveFacts] : n \in LiveSizes}

\* the live items as the movie library
LiveMovies(facts) ==
    [i \in 1..Len(facts) |->
        [ID |-> "m" \o ToString(i), Name |-> facts[i].Name,
         ProviderIds |-> facts[i].ProviderIds, Played |-> facts[i].Played]]
\* the live items as the episodes of the series "Show", all of "Season 1"
LiveEpisodes(facts) ==
    [i \in 1..Len(facts) |->
        [ID |-> "e" \o ToString(i), Name |-> facts[i].Name,
         SeriesName |-> "Show", SeasonName |-> "Season 1",
         ProviderIds |-> facts[i].ProviderIds, Played |-> facts[i].Played]]

\* what a series search may answer for a name: nothing (as a failed request
\* does, for the caller), the series, the series behind a similar one, a
\* similar one only, the series behind another series of the same name
SeriesId(name) == "id-" \o name
SearchAnswers(name) ==
    LET exact == [ID |-> SeriesId(name), Name |-> name]
        other == [ID |-> SeriesId(name \o " Extra"), Name |-> name \o " Extra"]
        twin  == [ID |-> SeriesId(name) \o "-2", Name |-> name]
    IN  {<<>>, <<exact>>, <<other, exact>>, <<other>>, <<twin, exact>>}
\* the name of the series with this id in a search answer
SeriesNameOf(results, seriesID) ==
    IF \E i \in 1..Len(results) : results[i].ID = seriesID
    THEN results[CHOOSE i \in 1..Len(results) : results[i].ID = seriesID].Name
    ELSE ""
\* what a series other than "Show" may hold: no episode, or an episode
\* "Beta" of "Season 1" that is not played and has an id of its own
OtherSeriesEpisodes(seriesName) ==
    {<<>>,
     <<[ID |-> "x1", Name |-> "Beta", SeriesName |-> seriesName,
        SeasonName |-> "Season 1", ProviderIds |-> ImdbTwo, Played |-> FALSE]>>}
\* the episode lists GetEpisodesForSeries may return for the series id
\* FindSeriesID gave: the live episodes for "Show", and for any other series
\* the episodes of that series
EpisodesOnServer(facts, seriesID, seriesName) ==
    IF seriesID = SeriesId("Show") THEN {LiveEpisodes(facts)}
    ELSE OtherSeriesEpisodes(seriesName)

\* backup records explored.  "Beta" may be the name of a live item, "Gamma"
\* never is; "Season 1" is the season of the live episodes, "" (the server sent
\* no season name) is not;
\* ImdbTwo names a provider the live items know, with an id none of them has.
RecordIds == {NoIds, ImdbOne, ImdbTwo, BothIds}
MovieRecords ==
    [Type : {TypeMovie}, Name : {"Beta"}, SeriesName : {""},
     SeasonName : {""}, ProviderIDs : RecordIds]
    \cup [Type : {TypeMovie}, Name : {"Gamma"}, SeriesName : {""},
          SeasonName : {""}, ProviderIDs : {NoIds}]
EpisodeRecords ==
    [Type : {TypeEpisode}, Name : {"Beta"}, SeriesName : {"Show"},
     SeasonName : {"Season 1"}, ProviderIDs : {NoIds, ImdbOne, BothIds}]
    \cup [Type : {TypeEpisode}, Name : {"Beta"}, SeriesName : {"Show"},
          SeasonName : {""}, ProviderIDs : {NoIds}]
    \cup [Type : {TypeEpisode}, Name : {"Beta"}, SeriesName : {"Other"},
          SeasonName : {"Season 1"}, ProviderIDs : {NoIds}]
\* a backup that holds a movie and an episode, in either order
MixedBackups ==
    {<<m, e>> : m \in MovieRecords, e \in EpisodeRecords}
    \cup {<<e, m>> : m \in MovieRecords, e \in EpisodeRecords}
\* a backup of movies, a backup of episodes, or one of both
Backups ==
    {<<>>}
    \cup UNION {[1..n -> MovieRecords] : n \in 1..MaxRecords}
    \cup UNION {[1..n -> EpisodeRecords] : n \in 1..MaxRecords}
    \cup MixedBackups

\* lastRecord before any record was processed
NoRecord ==
    [valid |-> FALSE,
     rec |-> [Type |-> "", Name |-> "", SeriesName |-> "", SeasonName |-> "",
              ProviderIDs |-> NoIds],
     successful |-> 0, failed |-> 0, marks |-> <<>>]

\* lastShow when the last step did not begin a series iteration
NoShow ==
    [valid |-> FALSE, seriesName |-> "", results |-> <<>>, seriesID |-> "",
     fetched |-> FALSE, fetchOk |-> FALSE,
     successful |-> 0, failed |-> 0, marks |-> <<>>]

\* no restore is running
RestoreIdle ==
    /\ backupItems = <<>>
    /\ liveItems = <<>>
    /\ pc = "idle"
    /\ pos = 0
    /\ seriesLeft = {}
    /\ curSeries = ""
    /\ curEpisodes = <<>>
    /\ seasonsLeft = {}
    /\ curSeason = ""
    /\ successful = 0
    /\ failed = 0
    /\ found = FALSE
    /\ itemInfo = NoInfo
    /\ marks = <<>>
    /\ lastRecord = NoRecord
    /\ lastShow = NoShow

-----------------------------------------------------------------------------
(* Inputs explored *)

\* number of an episode within its season: TVDB numbers each season from 1
NumberInSeason(ss, i) == Cardinality({j \in 1..i : ss[j] = ss[i]})

IsNonDecreasing(ss) == \A i \in 1..(Len(ss) - 1) : ss[i] <= ss[i + 1]

SeasonLists ==
    UNION {{ss \in [1..n -> Seasons] : IsNonDecreasing(ss)} : n \in 1..MaxEpisodes}

\* what is known of one episode besides its place: TVDB's runtime and air date,
\* whether a local file exists, and that file's runtime.  An episode without
\* a file is explored with every air date; the runtime of one that is not yet
\* due, which the scan never reads, is not varied.  A file has the length of
\* a long episode, or is a little longer than the long episode it is of.
EpisodeFacts ==
    [runtime : Runtimes, aired : {Yesterday}, stored : {FALSE}, jf : {0}]
    \cup [runtime : {20}, aired : AirDates \ {Yesterday}, stored : {FALSE}, jf : {0}]
    \cup {f \in [runtime : Runtimes, aired : {Yesterday}, stored : {TRUE},
                 jf : LocalRuntimes] : f.jf = 100 \/ f.runtime = 100}

EpisodeList(ss, fs) ==
    [i \in 1..Len(ss) |->
        [SeasonNumber   |-> ss[i],
         Number         |-> NumberInSeason(ss, i),
         RuntimeMinutes |-> fs[i].runtime,
         Aired          |-> fs[i].aired,
         Name           |-> "S" \o ToString(ss[i]) \o "E" \o ToString(NumberInSeason(ss, i)),
         Overview       |-> "about " \o ToString(i)]]

\* existingEpisodes as performFindMissing builds it from the local episodes
ExistingEpisodes(ss, fs) ==
    LET present == {i \in 1..Len(ss) : fs[i].stored}
        keyOf(i) == EpisodeKey(ss[i], NumberInSeason(ss, i))
    IN  [k \in {keyOf(i) : i \in present} |->
            fs[CHOOSE i \in present : keyOf(i) = k].jf]

\* what time.Now() may return when the clock last showed t: the clock does
\* not run backwards, and at most MaxTicks ticks elapse in a run
ClockReadings(t) == t..(NowStart + MaxTicks)

\* performFindMissing is not running
FindIdle ==
    /\ fmSeries = <<>>
    /\ includeSpecials = FALSE
    /\ fmPc = "idle"
    /\ fmPos = 0
    /\ totalMissing = 0
    /\ fmLog = <<>>

\* no scan is running
ScanIdle ==
    /\ tvdbEpisodes = <<>>
    /\ jellyfinEpisodes = <<>>
    /\ checkSpecials = FALSE
    /\ now = NowStart
    /\ idx = 1
    /\ chainActive = ChainZero.chainActive
    /\ chainSeason = ChainZero.chainSeason
    /\ chainJfRuntime = ChainZero.chainJfRuntime
    /\ chainTvdbRuntimeAccum = ChainZero.chainTvdbRuntimeAccum
    /\ missing = ChainZero.missing
    /\ lastStep = [at |-> 0, before |-> ChainZero]
    /\ run = 1
    /\ firstMissing = <<>>
    /\ firstNow = now

\* the record GetWatchedItems makes of a live item (the ID and the played
\* date, which the restore does not read, are left out)
WatchedItem(item, type) ==
    [Type |-> type, Name |-> item.Name,
     SeriesName |-> IF type = TypeEpisode THEN item.SeriesName ELSE "",
     SeasonName |-> IF type = TypeEpisode THEN item.SeasonName ELSE "",
     ProviderIDs |-> item.ProviderIds]
RECURSIVE WatchedItems(_, _)
WatchedItems(items, type) ==
    IF items = <<>> THEN <<>>
    ELSE <<WatchedItem(Head(items), type)>> \o WatchedItems(Tail(items), type)
\* GetWatchedItems: the played movies and episodes of the server, which
\* performBackup writes to the file and performRestore reads back
GetWatchedItems(facts) ==
    WatchedItems(SelectSeq(LiveMovies(facts), LAMBDA it : it.Played), TypeMovie)
    \o WatchedItems(SelectSeq(LiveEpisodes(facts), LAMBDA it : it.Played),
                    TypeEpisode)

\* the libraries on which a backup is taken and restored: items may lack
\* provider IDs
RoundTripFacts ==
    [Name : {"Alpha", "Beta"}, ProviderIds : {NoIds, ImdbOne, TmdbOne},
     Played : BOOLEAN]

\* performBackup has run on the server, performRestore has read its file
InitRoundTrip ==
    /\ liveItems \in UNION {[1..n -> RoundTripFacts] : n \in LiveSizes}
    /\ backupItems = GetWatchedItems(liveItems)
    /\ pc = "start"
    /\ pos = 0
    /\ seriesLeft = SeriesOf(backupItems)
    /\ curSeries = ""
    /\ curEpisodes = <<>>
    /\ seasonsLeft = {}
    /\ curSeason = ""
    /\ successful = 0
    /\ failed = 0
    /\ found = FALSE
    /\ itemInfo = NoInfo
    /\ marks = <<>>
    /\ lastRecord = NoRecord
    /\ lastShow = NoShow
    /\ ScanIdle
    /\ FindIdle

\* performRestore has read the backup file and grouped its items
InitRestore ==
    /\ backupItems \in Backups
    /\ liveItems \in LiveLists
    /\ pc = "start"
    /\ pos = 0
    /\ seriesLeft = SeriesOf(backupItems)
    /\ curSeries = ""
    /\ curEpisodes = <<>>
    /\ seasonsLeft = {}
    /\ curSeason = ""
    /\ successful = 0
    /\ failed = 0
    /\ found = FALSE
    /\ itemInfo = NoInfo
    /\ marks = <<>>
    /\ lastRecord = NoRecord
    /\ lastShow = NoShow
    /\ ScanIdle
    /\ FindIdle

NoStep == [at |-> 0, before |-> ChainZero]

\* the scan's locals at function entry
ScanEntry ==
    /\ idx = 1
    /\ chainActive = ChainZero.chainActive
    /\ chainSeason = ChainZero.chainSeason
    /\ chainJfRuntime = ChainZero.chainJfRuntime
    /\ chainTvdbRuntimeAccum = ChainZero.chainTvdbRuntimeAccum
    /\ missing = ChainZero.missing
    /\ lastStep = NoStep

InputsUpTo(n) ==
    \E ss \in SeasonLists :
       /\ Len(ss) <= n
       /\ \E fs \in [1..Len(ss) -> EpisodeFacts] :
             /\ tvdbEpisodes = EpisodeList(ss, fs)
             /\ jellyfinEpisodes = ExistingEpisodes(ss, fs)

InitScan ==
    /\ InputsUpTo(MaxEpisodes)
    /\ checkSpecials \in BOOLEAN
    /\ now = NowStart
    /\ ScanEntry
    /\ run = 1
    /\ firstMissing = <<>>
    /\ firstNow = now
    /\ RestoreIdle
    /\ FindIdle

\* runtimes that include the unknown one (0) and a short episode
EdgeRuntimes == {0, 10, 100}
EdgeLocalRuntimes == {0, 50, 100}
\* episodes aired yesterday, with such runtimes
EdgeFacts ==
    [runtime : EdgeRuntimes, aired : {Yesterday}, stored : {FALSE}, jf : {0}]
    \cup [runtime : EdgeRuntimes, aired : {Yesterday}, stored : {TRUE},
          jf : EdgeLocalRuntimes]
\* the call on short lists of such episodes
InitEdgeRuntimes ==
    /\ \E ss \in SeasonLists :
          /\ Len(ss) <= MaxRerunEpisodes
          /\ \E fs \in [1..Len(ss) -> EdgeFacts] :
                /\ tvdbEpisodes = EpisodeList(ss, fs)
                /\ jellyfinEpisodes = ExistingEpisodes(ss, fs)
    /\ checkSpecials \in BOOLEAN
    /\ now = NowStart
    /\ ScanEntry
    /\ run = 1
    /\ firstMissing = <<>>
    /\ firstNow = now
    /\ RestoreIdle
    /\ FindIdle

\* the shorter inputs on which the function is called twice
InitTwice ==
    /\ InputsUpTo(MaxRerunEpisodes)
    /\ checkSpecials \in BOOLEAN
    /\ now \in ClockReadings(NowStart)
    /\ ScanEntry
    /\ run = 1
    /\ firstMissing = <<>>
    /\ firstNow = now
    /\ RestoreIdle
    /\ FindIdle

-----------------------------------------------------------------------------
(* Actions of the scan *)

\* one iteration of "for _, ep := range tvdbEpisodes"; the clock shows t
Step ==
    /\ idx <= Len(tvdbEpisodes)
    /\ \E t \in ClockReadings(now) :
         LET ep == tvdbEpisodes[idx]
             st == ScanStep(ChainState, ep, jellyfinEpisodes, checkSpecials, t)
         IN  /\ now' = t
             /\ firstNow' = IF run = 1 /\ idx = 1 THEN t ELSE firstNow
             /\ chainActive' = st.chainActive
             /\ chainSeason' = st.chainSeason
             /\ chainJfRuntime' = st.chainJfRuntime
             /\ chainTvdbRuntimeAccum' = st.chainTvdbRuntimeAccum
             /\ missing' = st.missing
             /\ lastStep' = [at |-> idx, before |-> ChainState]
    /\ idx' = idx + 1
    /\ UNCHANGED <<tvdbEpisodes, jellyfinEpisodes, checkSpecials, run,
                   firstMissing, restoreVars, findVars>>

\* the function returned and is called again with the same arguments
Rerun ==
    /\ run = 1
    /\ idx = Len(tvdbEpisodes) + 1
    /\ run' = 2
    /\ firstMissing' = missing
    /\ idx' = 1
    /\ chainActive' = FreshLocals.chainActive
    /\ chainSeason' = FreshLocals.chainSeason
    /\ chainJfRuntime' = FreshLocals.chainJfRuntime
    /\ chainTvdbRuntimeAccum' = FreshLocals.chainTvdbRuntimeAccum
    /\ missing' = FreshLocals.missing
    /\ lastStep' = NoStep
    /\ UNCHANGED <<tvdbEpisodes, jellyfinEpisodes, checkSpecials, now,
                   firstNow, restoreVars, findVars>>

Next == Step

Spec == InitScan /\ [][Next]_vars

SpecEdgeRuntimes == InitEdgeRuntimes /\ [][Next]_vars

NextTwice == Step \/ Rerun

SpecTwice == InitTwice /\ [][NextTwice]_vars

-----------------------------------------------------------------------------
(* Actions of the restore *)

\* One loop body of restoreMovies / restoreTVShows on record rec with the
\* lookup maps given: the lookup ends with res, MarkAsWatched (if called)
\* returns nil iff markOk.
ProcessRecord(rec, providerIdMap, nameMap) ==
    \E res \in Resolutions(rec, providerIdMap, nameMap) :
    \E markOk \in BOOLEAN :
       LET counts == CountsAfter(res, markOk, successful, failed)
       IN  /\ found' = res.found
           /\ itemInfo' = res.info
           /\ marks' = IF NeedsMark(res)
                       THEN Append(marks, [id |-> res.info.ID, ok |-> markOk])
                       ELSE marks
           /\ successful' = counts.successful
           /\ failed' = counts.failed
           /\ lastRecord' = [valid |-> TRUE, rec |-> rec,
                             successful |-> successful, failed |-> failed,
                             marks |-> marks]

\* performRestore reaches "Process movies"; restoreMovies fetches the library
BeginMovies ==
    /\ pc = "start"
    /\ IF Len(MoviesOf(backupItems)) = 0
       THEN /\ pc' = "shows"
            /\ UNCHANGED <<pos, failed>>
       ELSE \E fetchOk \in BOOLEAN :
               IF fetchOk
               THEN pc' = "movies" /\ pos' = 1 /\ UNCHANGED failed
               ELSE /\ pc' = "shows"
                    /\ failed' = failed + Len(MoviesOf(backupItems))
                    /\ UNCHANGED pos
    /\ UNCHANGED <<backupItems, liveItems, seriesLeft, curSeries, curEpisodes,
                   seasonsLeft, curSeason, successful, found, itemInfo, marks,
                   lastRecord, lastShow, scanVars, findVars>>

\* one iteration of "for i, movie := range movies"
MovieStep ==
    /\ pc = "movies"
    /\ pos <= Len(MoviesOf(backupItems))
    /\ ProcessRecord(MoviesOf(backupItems)[pos],
                     MovieProviderIdMap(LiveMovies(liveItems)),
                     MovieNameMap(LiveMovies(liveItems)))
    /\ pos' = pos + 1
    /\ pc' = IF pos = Len(MoviesOf(backupItems)) THEN "shows" ELSE "movies"
    /\ UNCHANGED <<backupItems, liveItems, seriesLeft, curSeries, curEpisodes,
                   seasonsLeft, curSeason, lastShow, scanVars, findVars>>

\* one iteration of "for seriesName, seasons := range tvShowMap", up to the
\* lookup maps: the series is searched and its episodes are fetched
BeginShow ==
    /\ pc = "shows"
    /\ \E seriesName \in seriesLeft :
       \E results \in SearchAnswers(seriesName) :
       \E fetchOk \in BOOLEAN :
          LET seriesID == FindSeriesID(results, seriesName)
              \* GetEpisodesForSeries is called only with a series id
              fetched == seriesID # ""
          IN  /\ seriesLeft' = seriesLeft \ {seriesName}
              /\ IF fetched /\ fetchOk
                 THEN /\ pc' = "episodes"
                      /\ curSeries' = seriesName
                      /\ curEpisodes' \in
                            EpisodesOnServer(liveItems, seriesID,
                                             SeriesNameOf(results, seriesID))
                      /\ seasonsLeft' = SeasonsOf(backupItems, seriesName)
                      /\ curSeason' = ""
                      /\ pos' = 1
                      /\ UNCHANGED failed
                 ELSE /\ failed' = failed + SeriesEpisodeCount(backupItems, seriesName)
                      /\ UNCHANGED <<pc, curSeries, curEpisodes, seasonsLeft,
                                     curSeason, pos>>
              /\ lastShow' = [valid |-> TRUE, seriesName |-> seriesName,
                              results |-> results, seriesID |-> seriesID,
                              fetched |-> fetched,
                              fetchOk |-> fetched /\ fetchOk,
                              successful |-> successful, failed |-> failed,
                              marks |-> marks]
    /\ lastRecord' = NoRecord
    /\ UNCHANGED <<backupItems, liveItems, successful, found, itemInfo, marks,
                   scanVars, findVars>>

\* the range over the episodes of season curSeason is under way: the season
\* has been taken from the seasons map (seasonsLeft holds the seasons not yet
\* begun; any name, "" included, may be a season) and has episodes left
SeasonUnderWay ==
    /\ curSeason \notin seasonsLeft
    /\ pos <= Len(SeasonEpisodes(backupItems, curSeries, curSeason))

\* one iteration of "for _, episode := range seasonEpisodes"; when a season
\* is exhausted the range over the seasons map moves to another season
EpisodeStep ==
    /\ pc = "episodes"
    /\ \E s \in (IF SeasonUnderWay THEN {curSeason} ELSE seasonsLeft) :
         LET p == IF SeasonUnderWay THEN pos ELSE 1
             eps == SeasonEpisodes(backupItems, curSeries, s)
             rest == seasonsLeft \ {s}
             seriesDone == p = Len(eps) /\ rest = {}
         IN  /\ ProcessRecord(eps[p], EpisodeProviderIdMap(curEpisodes),
                              EpisodeNameSeasonMap(curEpisodes))
             /\ seasonsLeft' = rest
             /\ IF seriesDone
                THEN /\ pc' = "shows"
                     /\ curSeries' = ""
                     /\ curSeason' = ""
                     /\ pos' = 0
                ELSE /\ pc' = "episodes"
                     /\ curSeason' = s
                     /\ pos' = p + 1
                     /\ UNCHANGED curSeries
             /\ UNCHANGED curEpisodes
    /\ lastShow' = NoShow
    /\ UNCHANGED <<backupItems, liveItems, seriesLeft, scanVars, findVars>>

\* performRestore prints the summary and returns
FinishRestore ==
    /\ pc = "shows"
    /\ seriesLeft = {}
    /\ pc' = "done"
    /\ lastShow' = NoShow
    /\ UNCHANGED <<backupItems, liveItems, pos, seriesLeft, curSeries,
                   curEpisodes, seasonsLeft, curSeason, successful, failed,
                   found, itemInfo, marks, lastRecord, scanVars, findVars>>

NextRestore == BeginMovies \/ MovieStep \/ BeginShow \/ EpisodeStep \/ FinishRestore

SpecRestore == InitRestore /\ [][NextRestore]_vars

\* the restore of a backup taken from the same server
SpecRoundTrip == InitRoundTrip /\ [][NextRestore]_vars

-----------------------------------------------------------------------------
(* performFindMissing: the loop over the series of the library *)

\* what is known of an episode of a library series: absent and aired, absent
\* and not yet aired, or present
SeriesEpisodeFacts ==
    {[runtime |-> 20, aired |-> Yesterday, stored |-> FALSE, jf |-> 0],
     [runtime |-> 20, aired |-> Tomorrow, stored |-> FALSE, jf |-> 0],
     [runtime |-> 100, aired |-> Yesterday, stored |-> TRUE, jf |-> 100]}
\* a series of the library: its "Tvdb" provider id if it has one, and what
\* TVDB and Jellyfin hold for it (two episodes of season 1)
LibrarySeries ==
    {[hasTVDB |-> FALSE, facts |-> <<>>]}
    \cup [hasTVDB : {TRUE}, facts : [1..2 -> SeriesEpisodeFacts]]
SeriesSeasons(s) == [i \in 1..Len(s.facts) |-> 1]
\* what TVDB holds for the series and the map built from
\* jellyfinClient.GetEpisodesForSeries(s.ID)
SeriesTvdbEpisodes(s) == EpisodeList(SeriesSeasons(s), s.facts)
SeriesExistingEpisodes(s) == ExistingEpisodes(SeriesSeasons(s), s.facts)

\* tvdbClient.GetSeriesEpisodes(tvdbID), pages of one episode.  The status
\* of a response is not looked at: a page that TVDB rejects with a JSON body
\* (401, 404) decodes to no episodes and no next link, so the episodes of
\* the `got` pages before it are returned with a nil error.  Only a request
\* that cannot be made or a body that is not JSON gives an error.
GetSeriesEpisodes(s, got) == SubSeq(SeriesTvdbEpisodes(s), 1, got)
\* how many episodes the call may return
PagesAnswered(s) == 0..Len(SeriesTvdbEpisodes(s))

\* what time.Now() may return in n successive iterations when the clock last
\* showed t
ClockRuns(t, n) ==
    {ts \in [1..n -> ClockReadings(t)] :
        \A i \in 1..(n - 1) : ts[i] <= ts[i + 1]}

\* the body of the loop for series s: tvdbOk / jfOk tell whether the two
\* fetches return without error, got is the number of episodes TVDB's pages
\* gave, ts are the clock readings of the scan
SeriesOutcome(s, tvdbOk, got, jfOk, cs, ts) ==
    IF ~s.hasTVDB
    THEN [outcome |-> "skipped", tvdb |-> "none", jf |-> "none",
          missing |-> <<>>]
    ELSE IF ~tvdbOk
    THEN [outcome |-> "tvdbError", tvdb |-> "error", jf |-> "none",
          missing |-> <<>>]
    ELSE LET tvdb == IF got < Len(SeriesTvdbEpisodes(s)) THEN "rejected" ELSE "ok"
         IN  IF ~jfOk
             THEN [outcome |-> "jellyfinError", tvdb |-> tvdb, jf |-> "error",
                   missing |-> <<>>]
             ELSE [outcome |-> "checked", tvdb |-> tvdb, jf |-> "ok",
                   missing |-> FindMissingEpisodesAt(GetSeriesEpisodes(s, got),
                                                     SeriesExistingEpisodes(s),
                                                     cs, ts)]

\* "continue" and the end of the loop body both go on with the next series
NextSeries(i, n, out) == i + 1

InitFindMissing ==
    /\ fmSeries \in UNION {[1..n -> LibrarySeries] : n \in 0..MaxSeries}
    /\ includeSpecials \in BOOLEAN
    /\ fmPc = "start"
    /\ fmPos = 0
    /\ totalMissing = 0
    /\ fmLog = <<>>
    /\ ScanIdle
    /\ RestoreIdle

\* tvdbClient.Login and jellyfinClient.GetAllSeries: an error of either is
\* returned to the caller
FindStart ==
    /\ fmPc = "start"
    /\ \E loginOk \in BOOLEAN : \E seriesOk \in BOOLEAN :
          IF loginOk /\ seriesOk
          THEN fmPc' = "loop" /\ fmPos' = 1
          ELSE fmPc' = "failed" /\ UNCHANGED fmPos
    /\ UNCHANGED <<fmSeries, includeSpecials, totalMissing, fmLog, scanVars,
                   restoreVars>>

\* one iteration of "for i, s := range series": the clock is read once for
\* each episode TVDB gave, and stands at the last reading at the end
FindSeries ==
    /\ fmPc = "loop"
    /\ fmPos <= Len(fmSeries)
    /\ \E tvdbOk \in BOOLEAN : \E jfOk \in BOOLEAN :
       \E got \in PagesAnswered(fmSeries[fmPos]) :
       \E ts \in ClockRuns(now, got + 1) :
          LET out == SeriesOutcome(fmSeries[fmPos], tvdbOk, got, jfOk,
                                   includeSpecials, ts)
          IN  /\ now' = ts[got + 1]
              /\ fmLog' = Append(fmLog, [series |-> fmPos] @@ out)
              /\ totalMissing' = totalMissing + Len(out.missing)
              /\ fmPos' = NextSeries(fmPos, Len(fmSeries), out)
    /\ UNCHANGED <<fmSeries, includeSpecials, fmPc, restoreVars,
                   tvdbEpisodes, jellyfinEpisodes, checkSpecials, idx,
                   chainActive, chainSeason, chainJfRuntime,
                   chainTvdbRuntimeAccum, missing, lastStep, run, firstMissing,
                   firstNow>>

\* the summary is printed and nil returned
FindSummary ==
    /\ fmPc = "loop"
    /\ fmPos > Len(fmSeries)
    /\ fmPc' = "done"
    /\ UNCHANGED <<fmSeries, includeSpecials, fmPos, totalMissing, fmLog,
                   scanVars, restoreVars>>

NextFindMissing == FindStart \/ FindSeries \/ FindSummary

SpecFindMissing == InitFindMissing /\ [][NextFindMissing]_vars

-----------------------------------------------------------------------------
(* Vocabulary of the claims about the scan.  These predicates are written   *)
(* from the input and the clock, not from the operators of the model above. *)

Episode(i) == tvdbEpisodes[i]
Positions == 1..Len(tvdbEpisodes)
KeyOf(i) == EpisodeKey(Episode(i).SeasonNumber, Episode(i).Number)
Present(i) == KeyOf(i) \in DOMAIN jellyfinEpisodes
Absent(i) == ~Present(i)

\* the loop has just finished iteration i; the clock it read is `now`
JustScanned(i) == lastStep.at = i
Returned == idx = Len(tvdbEpisodes) + 1

\* the air date is a date, and its midnight lies before the clock reading
AiredBy(i, t) ==
    /\ DateParses(Episode(i).Aired)
    /\ DayNumber(Episode(i).Aired[1], Episode(i).Aired[2], Episode(i).Aired[3])
           * TicksPerDay < t
\* the episode is checked at all: not a special, or specials are included
Checked(i) == Episode(i).SeasonNumber # 0 \/ checkSpecials
\* absent, and due for a report when the clock reads t
Due(i, t) == Absent(i) /\ Checked(i) /\ AiredBy(i, t)

\* the entry of the result that reports episode i
Report(i) ==
    [SeasonNumber  |-> Episode(i).SeasonNumber,
     EpisodeNumber |-> Episode(i).Number,
     EpisodeName   |-> Episode(i).Name,
     AirDate       |-> Episode(i).Aired,
     Overview      |-> Episode(i).Overview]
Reported(i) == \E k \in 1..Len(missing) : missing[k] = Report(i)

\* what iteration i did
Emitted(i) == missing = Append(lastStep.before.missing, Report(i))
Untouched == ChainState = lastStep.before
Folded(i) ==
    /\ missing = lastStep.before.missing
    /\ chainActive /\ lastStep.before.chainActive
    /\ chainSeason = lastStep.before.chainSeason
    /\ chainJfRuntime = lastStep.before.chainJfRuntime
    /\ chainTvdbRuntimeAccum =
           lastStep.before.chainTvdbRuntimeAccum + Episode(i).RuntimeMinutes

\* the nearest locally present episode before position i (0: none)
LastPresentBefore(i) ==
    IF \E j \in 1..(i - 1) : Present(j)
    THEN CHOOSE j \in 1..(i - 1) :
            Present(j) /\ \A k \in (j + 1)..(i - 1) : Absent(k)
    ELSE 0

\* the list without its i-th episode
WithoutEpisode(eps, i) == SubSeq(eps, 1, i - 1) \o SubSeq(eps, i + 1, Len(eps))

-----------------------------------------------------------------------------
(* C1: merge threshold.  When a locally present episode (observed runtime   *)
(* R, expected runtime E0) is immediately followed by an absent, due        *)
(* episode of the same season (expected runtime E1), the absent episode is  *)
(* left out of the result if and only if 100*R >= 85*(E0+E1); so with       *)
(* E0 = 100 and E1 = 20 it is reported for R = 100 and folded for R = 102.  *)
C1_MergeThreshold ==
    \A i \in Positions :
        ( /\ JustScanned(i)
          /\ i > 1
          /\ Present(i - 1)
          /\ Due(i, now)
          /\ Episode(i).SeasonNumber = Episode(i - 1).SeasonNumber )
        => LET R  == jellyfinEpisodes[KeyOf(i - 1)]
               E0 == Episode(i - 1).RuntimeMinutes
               E1 == Episode(i).RuntimeMinutes
           IN  /\ ~Reported(i) <=> (100 * R >= 85 * (E0 + E1))
               /\ (E0 = 100 /\ E1 = 20 /\ R = 100) => Emitted(i)
               /\ (E0 = 100 /\ E1 = 20 /\ R = 102) => Folded(i)

\* the boundary case: R = 102 against 0.85 * (100 + 20) = 102 folds
C1_Witness ==
    /\ JustScanned(2)
    /\ Present(1) /\ Due(2, now)
    /\ Episode(1).SeasonNumber = Episode(2).SeasonNumber
    /\ jellyfinEpisodes[KeyOf(1)] = 102
    /\ Episode(1).RuntimeMinutes = 100
    /\ Episode(2).RuntimeMinutes = 20
    /\ missing = <<>>

(* C2: the chain breaks on a season change.  An absent episode that passes  *)
(* the specials and air-date tests, and whose nearest locally present       *)
(* predecessor is of another season, is always emitted, whatever the        *)
(* runtimes.                                                                *)
C2_SeasonChangeBreaksChain ==
    \A i \in Positions :
        ( /\ JustScanned(i)
          /\ Due(i, now)
          /\ LastPresentBefore(i) # 0
          /\ Episode(LastPresentBefore(i)).SeasonNumber # Episode(i).SeasonNumber )
        => Emitted(i) /\ ~chainActive

\* a local file long enough to hold both episodes, but of the other season
C2_Witness ==
    /\ JustScanned(2)
    /\ Present(1) /\ Due(2, now)
    /\ Episode(1).SeasonNumber # Episode(2).SeasonNumber
    /\ 100 * jellyfinEpisodes[KeyOf(1)]
          >= 85 * (Episode(1).RuntimeMinutes + Episode(2).RuntimeMinutes)
    /\ missing = <<Report(2)>>

(* C3: an absent episode whose air date does not parse (or is empty) is     *)
(* never emitted and leaves chainActive, chainSeason, chainJfRuntime and    *)
(* chainTvdbRuntimeAccum as they were; the result of the scan is the one    *)
(* the list without that episode gives.                                     *)
C3_UnparsableDateSkipped ==
    /\ \A k \in 1..Len(missing) : DateParses(missing[k].AirDate)
    /\ \A i \in Positions :
          (JustScanned(i) /\ Absent(i) /\ ~DateParses(Episode(i).Aired))
          => Untouched
    /\ (idx = 1 /\ run = 1) =>
          \A i \in Positions :
             (Absent(i) /\ ~DateParses(Episode(i).Aired)) =>
                \A t \in ClockReadings(NowStart) :
                   FindMissingEpisodes(tvdbEpisodes, jellyfinEpisodes,
                                       checkSpecials, t)
                   = FindMissingEpisodes(WithoutEpisode(tvdbEpisodes, i),
                                         jellyfinEpisodes, checkSpecials, t)

\* the episode after the unparsable one still merges into the local file
C3_Witness ==
    /\ JustScanned(3)
    /\ Present(1)
    /\ Absent(2) /\ ~DateParses(Episode(2).Aired) /\ Checked(2)
    /\ Due(3, now)
    /\ Episode(1).SeasonNumber = Episode(3).SeasonNumber
    /\ Folded(3)
    /\ missing = <<>>

(* C4 as claimed: an absent episode whose air date is today or a later day  *)
(* is not emitted and leaves the chain state as it was.                     *)
C4_TodayOrLaterSkipped ==
    \A i \in Positions :
        ( /\ JustScanned(i)
          /\ Absent(i)
          /\ DateParses(Episode(i).Aired)
          /\ DayNumber(Episode(i).Aired[1], Episode(i).Aired[2],
                       Episode(i).Aired[3]) >= DayOf(now) )
        => Untouched

(* C4, amended: the air date stands for midnight UTC of its day and is      *)
(* compared with the instant the clock shows.  An absent episode whose air  *)
(* date is a later day, or today while the clock shows exactly midnight, is *)
(* not emitted and leaves the chain state as it was; one whose air date is  *)
(* today is, once midnight has passed, handled as due (folded or emitted).  *)
C4_NotBeforeNowSkipped ==
    \A i \in Positions :
        (JustScanned(i) /\ Absent(i) /\ DateParses(Episode(i).Aired)) =>
            LET day == DayNumber(Episode(i).Aired[1], Episode(i).Aired[2],
                                 Episode(i).Aired[3])
            IN  /\ (day > DayOf(now)
                      \/ (day = DayOf(now) /\ now % TicksPerDay = 0))
                   => Untouched
                /\ (day = DayOf(now) /\ now % TicksPerDay # 0 /\ Checked(i))
                   => (Emitted(i) \/ Folded(i))

\* an episode airing tomorrow, met while a chain is active
C4_Witness ==
    /\ JustScanned(2)
    /\ Present(1)
    /\ Absent(2) /\ Checked(2)
    /\ Episode(2).Aired = Tomorrow
    /\ Episode(1).SeasonNumber = Episode(2).SeasonNumber
    /\ chainActive
    /\ chainTvdbRuntimeAccum = Episode(1).RuntimeMinutes
    /\ missing = <<>>

(* C5: with no local episode at all and every air date in the past, the     *)
(* scan returns exactly the episodes of a season other than 0 when          *)
(* checkSpecials is false, and exactly all episodes when it is true, in     *)
(* the order of the input.                                                  *)
C5_EmptyLibraryReportsAll ==
    ( /\ Returned
      /\ DOMAIN jellyfinEpisodes = {}
      /\ \A i \in Positions : AiredBy(i, NowStart) )
    => LET kept == SelectSeq([i \in Positions |-> i],
                             LAMBDA i : Episode(i).SeasonNumber # 0 \/ checkSpecials)
       IN  missing = [k \in 1..Len(kept) |-> Report(kept[k])]

\* a special and two regular episodes, specials not included
C5_Witness ==
    /\ Returned
    /\ DOMAIN jellyfinEpisodes = {}
    /\ \A i \in Positions : AiredBy(i, NowStart)
    /\ Len(tvdbEpisodes) = 3
    /\ Episode(1).SeasonNumber = 0
    /\ Episode(2).SeasonNumber # 0
    /\ ~checkSpecials
    /\ missing = <<Report(2), Report(3)>>

(* C6: with checkSpecials false, an absent episode of season 0 is skipped   *)
(* entirely: it is never emitted, adds nothing to the accumulator and does  *)
(* not deactivate an active chain.                                          *)
C6_SpecialsSkipped ==
    /\ ~checkSpecials => \A k \in 1..Len(missing) : missing[k].SeasonNumber # 0
    /\ \A i \in Positions :
          ( /\ JustScanned(i)
            /\ Absent(i)
            /\ Episode(i).SeasonNumber = 0
            /\ ~checkSpecials )
          => Untouched

\* an aired special after a local special: the chain stays active, unfed
C6_Witness ==
    /\ JustScanned(2)
    /\ ~checkSpecials
    /\ Present(1)
    /\ Absent(2) /\ AiredBy(2, now)
    /\ Episode(1).SeasonNumber = 0
    /\ Episode(2).SeasonNumber = 0
    /\ chainActive
    /\ chainTvdbRuntimeAccum = Episode(1).RuntimeMinutes
    /\ missing = <<>>

MidnightCrossed(i) ==
    /\ DateParses(Episode(i).Aired)
    /\ LET midnight == DayNumber(Episode(i).Aired[1], Episode(i).Aired[2],
                                 Episode(i).Aired[3]) * TicksPerDay
       IN  firstNow <= midnight /\ midnight < now

-----------------------------------------------------------------------------
(* Vocabulary of the claims about the restore, written from the backup      *)
(* record and the live items, not from the lookup maps of the model.        *)

\* the record the last loop body processed
Record == lastRecord.rec
JustRestored == lastRecord.valid
\* the live items that record is matched against
Targets ==
    IF Record.Type = TypeMovie THEN LiveMovies(liveItems) ELSE curEpisodes

\* live item i carries provider p with the id the record has for it
SharesId(i, p) ==
    /\ p \in DOMAIN Record.ProviderIDs
    /\ p \in DOMAIN Targets[i].ProviderIds
    /\ Targets[i].ProviderIds[p] = Record.ProviderIDs[p]
\* live item i has the record's name (and, for an episode, its season name)
SharesName(i) ==
    /\ Targets[i].Name = Record.Name
    /\ Record.Type = TypeEpisode => Targets[i].SeasonName = Record.SeasonName

\* the providers of the record whose id some live item carries
HitProviders ==
    {p \in DOMAIN Record.ProviderIDs : \E i \in 1..Len(Targets) : SharesId(i, p)}
NameHits == \E i \in 1..Len(Targets) : SharesName(i)

\* the item the provider index holds for provider p of the record, and the
\* item the name index holds for the record: the last one listed
ProviderItem(p) ==
    Targets[CHOOSE i \in 1..Len(Targets) :
               SharesId(i, p) /\ \A j \in (i + 1)..Len(Targets) : ~SharesId(j, p)]
NameItem ==
    Targets[CHOOSE i \in 1..Len(Targets) :
               SharesName(i) /\ \A j \in (i + 1)..Len(Targets) : ~SharesName(j)]

\* the loop body used this live item
Used(item) == found /\ itemInfo = [ID |-> item.ID, Played |-> item.Played]

\* what the loop body did to the counters and to the server
CountedSuccess ==
    successful = lastRecord.successful + 1 /\ failed = lastRecord.failed
CountedFailure ==
    successful = lastRecord.successful /\ failed = lastRecord.failed + 1
NoMarkIssued == marks = lastRecord.marks
MarkIssuedFor(item) ==
    /\ Len(marks) = Len(lastRecord.marks) + 1
    /\ SubSeq(marks, 1, Len(lastRecord.marks)) = lastRecord.marks
    /\ marks[Len(marks)].id = item.ID

-----------------------------------------------------------------------------
(* C8: a provider-ID match is preferred over a name match.  For a backup    *)
(* record (movie or episode) one of whose "provider:id" keys is in the      *)
(* provider index and whose secondary key is in the name index, possibly    *)
(* for another live item, the item used is one the provider index holds     *)
(* for a key of the record.                                                 *)
C8_ProviderMatchPreferred ==
    (JustRestored /\ HitProviders # {} /\ NameHits)
    => \E p \in HitProviders : Used(ProviderItem(p))

\* the name belongs to another live movie than the provider id: the movie
\* with the provider id is marked
C8_Witness ==
    /\ JustRestored
    /\ Record.Type = TypeMovie
    /\ HitProviders = {"Imdb"}
    /\ NameHits
    /\ NameItem.ID # ProviderItem("Imdb").ID
    /\ ~NameItem.Played
    /\ Used(ProviderItem("Imdb"))
    /\ MarkIssuedFor(ProviderItem("Imdb"))

(* C9: when none of the record's provider IDs is in the provider index      *)
(* (also when it has none), the lookup falls back to the secondary key, the *)
(* movie name or "seasonName:episodeName" within the fetched series, and    *)
(* uses that item if there is one; if there is none the record is counted   *)
(* as exactly one failed item and no mark command is issued for it.         *)
C9_FallbackToSecondaryKey ==
    (JustRestored /\ HitProviders = {})
    => IF NameHits
       THEN Used(NameItem)
       ELSE ~found /\ CountedFailure /\ NoMarkIssued

\* an episode whose only provider id is unknown to the server is found by
\* season and name, and marked
C9_Witness ==
    /\ JustRestored
    /\ Record.Type = TypeEpisode
    /\ DOMAIN Record.ProviderIDs # {}
    /\ HitProviders = {}
    /\ NameHits
    /\ Used(NameItem)
    /\ MarkIssuedFor(NameItem)

(* C10: a record (movie or episode) that resolves to a live item already    *)
(* played is counted as a success and no mark command is issued for it,     *)
(* whatever MarkAsWatched would have returned.                              *)
C10_PlayedItemNotMarked ==
    ( /\ JustRestored
      /\ found
      /\ \E i \in 1..Len(Targets) :
            Targets[i].ID = itemInfo.ID /\ Targets[i].Played )
    => CountedSuccess /\ NoMarkIssued

\* a played episode found through a provider id, after a mark that failed
C10_Witness ==
    /\ JustRestored
    /\ Record.Type = TypeEpisode
    /\ HitProviders # {}
    /\ \E p \in HitProviders : Used(ProviderItem(p)) /\ ProviderItem(p).Played
    /\ CountedSuccess
    /\ Len(marks) = 1 /\ ~marks[1].ok
    /\ NoMarkIssued

(* C11: a record that resolves to a live item not yet played causes exactly *)
(* one MarkAsWatched call, with that item's id; the record is counted as a  *)
(* success if the call returns nil and as a failure if it returns an error. *)
C11_UnplayedItemMarkedOnce ==
    ( /\ JustRestored
      /\ found
      /\ \E i \in 1..Len(Targets) :
            Targets[i].ID = itemInfo.ID /\ ~Targets[i].Played )
    => /\ Len(marks) = Len(lastRecord.marks) + 1
       /\ SubSeq(marks, 1, Len(lastRecord.marks)) = lastRecord.marks
       /\ marks[Len(marks)].id = itemInfo.ID
       /\ IF marks[Len(marks)].ok THEN CountedSuccess ELSE CountedFailure

\* the backup holds one movie with {Imdb: tt1, Tmdb: 1}, the server one
\* unplayed movie with Imdb: tt1 only: one mark, 1 success, 0 failures
C11_Witness ==
    /\ pc = "done"
    /\ Len(backupItems) = 1
    /\ backupItems[1].Type = TypeMovie
    /\ backupItems[1].ProviderIDs = BothIds
    /\ Len(liveItems) = 1
    /\ liveItems[1].ProviderIds = ImdbOne
    /\ ~liveItems[1].Played
    /\ marks = <<[id |-> "m1", ok |-> TRUE]>>
    /\ successful = 1
    /\ failed = 0

\* the last step began the iteration for a series group of the backup
JustBeganShow == lastShow.valid
\* FindSeriesID returned an error
ResolutionFailed == lastShow.seriesID = ""
\* the episode records of the backup that belong to a series group
GroupRecords(seriesName) ==
    {i \in 1..Len(backupItems) :
        /\ backupItems[i].Type = TypeEpisode
        /\ backupItems[i].SeriesName = seriesName}

(* C12: when FindSeriesID fails for a series group of the backup, every     *)
(* episode record of the group, whatever its season, is counted as failed,  *)
(* GetEpisodesForSeries is not called and no mark is issued for the group;  *)
(* the loop then stands at the next series group.                           *)
C12_UnresolvedSeriesAllFailed ==
    (JustBeganShow /\ ResolutionFailed)
    => /\ failed = lastShow.failed + Cardinality(GroupRecords(lastShow.seriesName))
       /\ successful = lastShow.successful
       /\ ~lastShow.fetched
       /\ marks = lastShow.marks
       /\ pc = "shows"
       /\ lastShow.seriesName \notin seriesLeft

\* a group with episodes in two seasons is not resolved: both are failed
C12_Witness ==
    /\ JustBeganShow
    /\ ResolutionFailed
    /\ Cardinality({backupItems[i].SeasonName :
                       i \in GroupRecords(lastShow.seriesName)}) = 2
    /\ failed = lastShow.failed + 2
    /\ ~lastShow.fetched
    /\ marks = <<>>

\* the Movie and Episode records of the backup
RestorableRecords ==
    {i \in 1..Len(backupItems) :
        backupItems[i].Type = TypeMovie \/ backupItems[i].Type = TypeEpisode}

\* the episode records of a series that belong to one of the seasons given
SeasonRecords(seriesName, seasons) ==
    {i \in GroupRecords(seriesName) : backupItems[i].SeasonName \in seasons}
\* the number of records the restore has still to reach, from where it stands
RecordsAhead ==
    LET movies == {i \in RestorableRecords : backupItems[i].Type = TypeMovie}
        episodes == RestorableRecords \ movies
        waiting == {i \in episodes : backupItems[i].SeriesName \in seriesLeft}
    IN  CASE pc = "start"    -> Cardinality(RestorableRecords)
          [] pc = "movies"   -> Cardinality(movies) - (pos - 1)
                                + Cardinality(episodes)
          [] pc = "shows"    -> Cardinality(waiting)
          [] pc = "episodes" ->
                Cardinality(waiting)
                + Cardinality(SeasonRecords(curSeries, seasonsLeft))
                + IF curSeason \in seasonsLeft THEN 0
                  ELSE Cardinality(SeasonRecords(curSeries, {curSeason}))
                       - (pos - 1)
          [] OTHER           -> 0

(* C13: whatever lookups, marks, series searches and episode fetches fail,  *)
(* every Movie and Episode record of the backup is counted exactly once and *)
(* the restore does not stop early: at any point the records counted so far *)
(* and the records still ahead make up the backup, and at the summary       *)
(* successful + failed is the number of Movie records plus the number of    *)
(* Episode records.                                                         *)
C13_EveryRecordCountedOnce ==
    /\ pc # "idle"
       => successful + failed + RecordsAhead = Cardinality(RestorableRecords)
    /\ pc = "done" => successful + failed = Cardinality(RestorableRecords)

\* the movie of the backup is not found, the episode after it is marked
C13_Witness ==
    /\ pc = "done"
    /\ Len(backupItems) = 2
    /\ backupItems[1].Type = TypeMovie
    /\ backupItems[2].Type = TypeEpisode
    /\ failed = 1
    /\ successful = 1
    /\ marks = <<[id |-> "e1", ok |-> TRUE]>>

\* the lookup maps built from a list of movies, or of fetched episodes
ProviderIndex(items, isMovie) ==
    IF isMovie THEN MovieProviderIdMap(items) ELSE EpisodeProviderIdMap(items)
NameIndex(items, isMovie) ==
    IF isMovie THEN MovieNameMap(items) ELSE EpisodeNameSeasonMap(items)
\* in a list of live items, the later of two items with a common key holds
\* that key in both maps
LaterItemHoldsKey(items, isMovie) ==
    \A i \in 1..Len(items) : \A j \in (i + 1)..Len(items) :
       /\ \A p \in DOMAIN items[i].ProviderIds \cap DOMAIN items[j].ProviderIds :
             items[i].ProviderIds[p] = items[j].ProviderIds[p]
             => ProviderIndex(items, isMovie)[p \o ":" \o items[i].ProviderIds[p]].ID
                   # items[i].ID
       /\ ( /\ items[i].Name = items[j].Name
            /\ ~isMovie => items[i].SeasonName = items[j].SeasonName )
          => NameIndex(items, isMovie)[
                 IF isMovie THEN items[i].Name
                 ELSE items[i].SeasonName \o ":" \o items[i].Name].ID # items[i].ID
\* the marks the last loop body added
NewMarks == {marks[n].id : n \in (Len(lastRecord.marks) + 1)..Len(marks)}

(* C15: when two live items carry the same "provider:id" key, or the same   *)
(* secondary key, the lookup map holds the one listed last, and a record    *)
(* that is resolved through that key is applied to that last item only.     *)
C15_LastDuplicateWins ==
    /\ pc = "movies" /\ pos = 1 => LaterItemHoldsKey(LiveMovies(liveItems), TRUE)
    /\ JustBeganShow => LaterItemHoldsKey(curEpisodes, FALSE)
    /\ JustRestored =>
         /\ \A p \in HitProviders :
               HitProviders = {p}
               => /\ itemInfo.ID = ProviderItem(p).ID
                  /\ NewMarks \subseteq {ProviderItem(p).ID}
         /\ (HitProviders = {} /\ NameHits)
               => /\ itemInfo.ID = NameItem.ID
                  /\ NewMarks \subseteq {NameItem.ID}

\* two unplayed live movies carry Imdb: tt1; a record with that id marks the
\* second one only
C15_Witness ==
    /\ JustRestored
    /\ Record.Type = TypeMovie
    /\ Record.ProviderIDs = ImdbOne
    /\ Len(liveItems) = 2
    /\ liveItems[1].ProviderIds = ImdbOne /\ ~liveItems[1].Played
    /\ liveItems[2].ProviderIds = ImdbOne /\ ~liveItems[2].Played
    /\ itemInfo.ID = "m2"
    /\ NewMarks = {"m2"}

(* C17: FindSeriesID returns the id of a search result whose name is the    *)
(* series name of the backup whenever there is one, also when it is not the *)
(* first result; without such a result it returns the first result; it      *)
(* fails only when the search gave no result.                               *)
C17_ExactNameBeforeFirstResult ==
    JustBeganShow =>
       LET results == lastShow.results
           exact == {i \in 1..Len(results) : results[i].Name = lastShow.seriesName}
       IN  /\ exact # {} => \E i \in exact : lastShow.seriesID = results[i].ID
           /\ (exact = {} /\ Len(results) > 0) => lastShow.seriesID = results[1].ID
           /\ ResolutionFailed <=> Len(results) = 0

\* the series is the second result of the search, behind a similar name
C17_Witness ==
    /\ JustBeganShow
    /\ Len(lastShow.results) = 2
    /\ lastShow.results[1].Name # lastShow.seriesName
    /\ lastShow.results[2].Name = lastShow.seriesName
    /\ lastShow.seriesID = lastShow.results[2].ID
    /\ lastShow.seriesID # lastShow.results[1].ID
    /\ lastShow.fetched

(* C20: the outcome of a record does not depend on which of its provider    *)
(* IDs is tried first: whichever hitting provider ID the lookup starts      *)
(* with, the same live item is used and the same mark is issued.            *)
C20_OutcomeIndependentOfIdOrder ==
    JustRestored =>
       \A p \in HitProviders :
          /\ itemInfo.ID = ProviderItem(p).ID
          /\ NewMarks \subseteq {ProviderItem(p).ID}

\* the expected runtimes of episodes a..i, added up
RECURSIVE ExpectedSum(_, _)
ExpectedSum(a, i) ==
    IF i < a THEN 0 ELSE ExpectedSum(a, i - 1) + Episode(i).RuntimeMinutes
\* episodes a+1..i are absent, of the season of a, and due from the first
\* reading of the clock on
ChainOf(a, i) ==
    /\ a # 0
    /\ \A j \in (a + 1)..i :
          Due(j, NowStart) /\ Episode(j).SeasonNumber = Episode(a).SeasonNumber

(* C16: chain extension and termination.  After a locally present episode a *)
(* (observed runtime R, expected runtime E0) the absent, due, same-season   *)
(* episodes that follow it are judged one after the other: episode k is     *)
(* folded iff 100*R >= 85*(E0+...+Ek), with the R of episode a; once one of *)
(* them is reported, every later absent due episode is reported up to the   *)
(* next locally present episode; that one starts a new chain with its own   *)
(* observed runtime and its own expected runtime as the sum.                *)
C16_ChainExtendsThenBreaks ==
    \A i \in Positions :
       JustScanned(i) =>
          LET a == LastPresentBefore(i)
          IN  /\ (Absent(i) /\ ChainOf(a, i))
                 => IF 100 * jellyfinEpisodes[KeyOf(a)] >= 85 * ExpectedSum(a, i)
                    THEN /\ missing = lastStep.before.missing
                         /\ chainJfRuntime = jellyfinEpisodes[KeyOf(a)]
                         /\ chainTvdbRuntimeAccum = ExpectedSum(a, i)
                    ELSE Emitted(i)
              /\ ( /\ Due(i, now)
                   /\ \E j \in (a + 1)..(i - 1) : Reported(j) )
                 => Emitted(i)
              /\ Present(i)
                 => /\ missing = lastStep.before.missing
                    /\ chainActive
                    /\ chainSeason = Episode(i).SeasonNumber
                    /\ chainJfRuntime = jellyfinEpisodes[KeyOf(i)]
                    /\ chainTvdbRuntimeAccum = Episode(i).RuntimeMinutes

\* a file of 102 minutes for an episode of 100: the next episode, of 20
\* minutes, is folded, the one after it is reported
C16_Witness ==
    /\ Len(tvdbEpisodes) = 3
    /\ JustScanned(3)
    /\ Present(1)
    /\ jellyfinEpisodes[KeyOf(1)] = 102
    /\ Episode(1).RuntimeMinutes = 100
    /\ Episode(2).RuntimeMinutes = 20
    /\ ChainOf(1, 3)
    /\ ~Reported(2)
    /\ Emitted(3)

\* episode i is absent and due when scanned, and directly follows a locally
\* present episode of its season
FollowsAnchor(i) ==
    /\ i > 1
    /\ Present(i - 1)
    /\ Due(i, now)
    /\ Episode(i).SeasonNumber = Episode(i - 1).SeasonNumber
\* the observed runtime of the file of episode i
Observed(i) == jellyfinEpisodes[KeyOf(i)]

(* C18, as claimed: when the local file is no longer than the expected      *)
(* runtime of its own episode, a following absent, due, same-season episode *)
(* with a positive expected runtime is reported, never folded.              *)
C18_SingleLengthFileNeverFolds ==
    \A i \in Positions :
       ( /\ JustScanned(i)
         /\ FollowsAnchor(i)
         /\ Observed(i - 1) <= Episode(i - 1).RuntimeMinutes
         /\ Episode(i).RuntimeMinutes > 0 )
       => Emitted(i)

(* C18, amended: with a local file of observed runtime R no longer than    *)
(* the expected runtime E0 of its own episode, a following absent, due,     *)
(* same-season episode with positive expected runtime E1 is reported        *)
(* exactly when R < 85% of E0+E1, and is folded otherwise.  So it is        *)
(* reported whenever 17*E1 > 3*E0 (then 85% of E0+E1 exceeds E0), and the   *)
(* only ones folded are those so short that 85% of E0+E1 is at most R.      *)
C18_SingleLengthFileFoldsOnlyShortEpisode ==
    \A i \in Positions :
       ( /\ JustScanned(i)
         /\ FollowsAnchor(i)
         /\ Observed(i - 1) <= Episode(i - 1).RuntimeMinutes
         /\ Episode(i).RuntimeMinutes > 0 )
       => LET R  == Observed(i - 1)
              E0 == Episode(i - 1).RuntimeMinutes
              E1 == Episode(i).RuntimeMinutes
          IN  /\ Emitted(i) <=> 100 * R < 85 * (E0 + E1)
              /\ ~Emitted(i) => Folded(i)
              /\ 17 * E1 > 3 * E0 => Emitted(i)

\* a file of 50 minutes for an episode of 100: the next episode, of 10
\* minutes, is reported, as 50 is less than 85% of 110
C18_Witness ==
    /\ JustScanned(2)
    /\ FollowsAnchor(2)
    /\ Observed(1) = 50
    /\ Episode(1).RuntimeMinutes = 100
    /\ Episode(2).RuntimeMinutes = 10
    /\ Emitted(2)

(* C19: unknown runtimes never hide a missing episode.  If the observed     *)
(* runtime of the local file is 0, or the expected runtimes of the chain    *)
(* with the candidate add up to 0, an absent, due, same-season episode      *)
(* after the local one is reported, not folded.                             *)
C19_UnknownRuntimeNeverFolds ==
    \A i \in Positions :
       ( /\ JustScanned(i)
         /\ ChainOf(LastPresentBefore(i), i)
         /\ Absent(i)
         /\ \/ Observed(LastPresentBefore(i)) = 0
            \/ ExpectedSum(LastPresentBefore(i), i) = 0 )
       => Emitted(i)

\* a fetch of the k-th series failed: TVDB could not be reached or rejected
\* a page of the episode request, or the Jellyfin fetch failed
FetchFailed(k) ==
    fmLog[k].tvdb \in {"error", "rejected"} \/ fmLog[k].jf = "error"
\* the failure was reported for the series
FailureReported(k) == fmLog[k].outcome \in {"tvdbError", "jellyfinError"}
\* what the series ranged over so far add to the total: nothing for one
\* without a Tvdb id or with a failed fetch, else the episodes
\* FindMissingEpisodes returns for it
RECURSIVE MissingUpTo(_)
MissingUpTo(k) ==
    IF k = 0 THEN 0
    ELSE MissingUpTo(k - 1)
         + IF FetchFailed(k) THEN 0 ELSE Len(fmLog[k].missing)

(* C14: in performFindMissing a failed fetch of a series' episodes (TVDB    *)
(* unreachable, TVDB rejecting the episode request, or the Jellyfin fetch   *)
(* failing) is reported for that series, the series adds nothing to the     *)
(* total of missing episodes, and every later series is still ranged over:  *)
(* the loop reaches its summary with one outcome per series of the library. *)
C14_FetchFailureSkipsOneSeries ==
    /\ \A k \in 1..Len(fmLog) :
          /\ fmLog[k].series = k
          /\ FetchFailed(k) => FailureReported(k) /\ fmLog[k].missing = <<>>
    /\ fmPc = "loop" => Len(fmLog) = fmPos - 1
    /\ fmPc = "done" => Len(fmLog) = Len(fmSeries)
    /\ fmPc \in {"loop", "done"} => totalMissing = MissingUpTo(Len(fmLog))
    /\ fmPc = "loop" => ENABLED NextFindMissing

(* C21: within one restore each live item receives at most one             *)
(* MarkAsWatched call, also when several records of the backup resolve to   *)
(* the same live item that was not played: once an item has been marked,    *)
(* it counts as played and no later record marks it again.  (Stated for the *)
(* marks that follow a mark that succeeded, which the claim covers however  *)
(* a failed mark is read.)                                                  *)
C21_AtMostOneMarkPerItem ==
    \A m \in 1..Len(marks) : \A n \in (m + 1)..Len(marks) :
       marks[m].ok => marks[n].id # marks[m].id

(* C22: a backup followed by a restore onto the same unchanged server is a  *)
(* no-op: every record that is looked up resolves to an item already        *)
(* played and no MarkAsWatched call is made.  (Stated for the lookups and   *)
(* the marks, which no failed request can cause.)                           *)
C22_RoundTripIsNoOp ==
    /\ marks = <<>>
    /\ (JustRestored /\ found) => itemInfo.Played

\* the entries k, k+1, ... of the result report, in this order, episodes
\* without a local file among the scanned positions i, i+1, ..., each
\* position used at most once
RECURSIVE ReportsInOrder(_, _)
ReportsInOrder(k, i) ==
    IF k > Len(missing) THEN TRUE
    ELSE IF i >= idx THEN FALSE
    ELSE IF missing[k] = Report(i) /\ Absent(i) THEN ReportsInOrder(k + 1, i + 1)
    ELSE ReportsInOrder(k, i + 1)

(* C23: FindMissingEpisodes never reports an episode that is present        *)
(* locally.  At every point of the scan the result is a subsequence, in     *)
(* input order, of the episodes scanned so far, each taken at most once     *)
(* with season, number, name, air date and overview copied unchanged, and   *)
(* no entry of the result has its season:number key in the local map.       *)
C23_ReportsOnlyAbsentInInputOrder ==
    /\ ReportsInOrder(1, 1)
    /\ \A k \in 1..Len(missing) :
          EpisodeKey(missing[k].SeasonNumber, missing[k].EpisodeNumber)
             \notin DOMAIN jellyfinEpisodes
    /\ \A k \in 1..Len(missing) : \A n \in (k + 1)..Len(missing) :
          missing[k] # missing[n]

\* a local file between two reported episodes: the result skips it and keeps
\* the order of the input
C23_Witness ==
    /\ Returned
    /\ Len(tvdbEpisodes) = 3
    /\ Absent(1) /\ Present(2) /\ Absent(3)
    /\ missing = <<Report(1), Report(3)>>

=============================================================================
